---------------------------- MODULE Spec2Model ----------------------------
(***************************************************************************)
(* Model of the prediction pool polla_champions_2025_streamlit_free.py:    *)
(* the scoring function, the submission handler running in concurrent      *)
(* Streamlit sessions over shared CSV files, and the locked file store.    *)
(*                                                                         *)
(* The specifications of the module:                                       *)
(*   SpecScore    compute_scores applied to bounded input tables           *)
(*   Spec         sessions (script runs), the clock and the stored tables  *)
(*   SpecAdmin    the same with the admin and config tabs                  *)
(*   SpecResults  the admin's uploads and saves of results, and the clock  *)
(*   SpecLoad     load_picks, load_results, load_config on a file as found *)
(*   SpecStore    save_* / load_* of one CSV file, step by step            *)
(*   SpecCrash    savers of one store that may die inside a save           *)
(*   SpecSave     savers of one store whose writes may raise, with fair    *)
(*                scheduling                                               *)
(*   SpecDomains  savers of the picks, results and config stores           *)
(***************************************************************************)
EXTENDS Integers, Sequences, FiniteSets, TLC

VARIABLES
    \* ---- SpecScore: one call of compute_scores
    sc_picks,       \* argument picks
    sc_results,     \* argument results
    sc_pe,          \* argument points_exact
    sc_po,          \* argument points_outcome
    sc_out,         \* [called, ranking, detail]: the value returned, once called
    \* ---- Spec: the application
    now,            \* datetime.now(timezone.utc), as an instant
    fixturesFile,   \* data/fixtures.csv
    picksFile,      \* data/picks.csv
    resultsFile,    \* data/results.csv
    cfg,            \* data/config.json
    pc,             \* per session: position of its script run
    snap,           \* per session: tables loaded at the top of the run
    sub,            \* per session: the submission being handled
    shown,          \* what the step just taken rendered, if it ended a run
    runs,           \* script runs started so far
    \* ---- SpecStore, SpecCrash: one store and its writers/readers
    store,          \* the kind of file: "csv" (picks, results) or "json" (config)
    file,           \* canonical file content
    tmp,            \* <file>.tmp content
    lock,           \* holder of <file>.lock, or 0
    ppc,            \* per process: position in save/load
    parg,           \* per process: table being saved
    waited,         \* per process: time spent waiting for the lock
    wrote,          \* per process: whether the current call has written a file
    seen,           \* per process: what the last load read
    fdOpen,         \* processes holding the canonical file open for writing
    \* ---- SpecLoad: one call of load_picks, load_results or load_config
    ld_kind,        \* which of the three loaders is called
    ld_in,          \* the backing file as the call finds it
    ld_file,        \* the backing file now
    ld_out,         \* what the call gave: a value, or an exception
    \* ---- SpecDomains: the picks, results and config stores side by side
    files,          \* per file name: the file's content
    locks,          \* per lock file: its holder, or 0
    wpc,            \* per process: position in its save
    wpath,          \* per process: path of the store it saves to
    warg,           \* per process: what it saves
    wwaited         \* per process: time spent waiting in lock.acquire()

scoreVars == <<sc_picks, sc_results, sc_pe, sc_po, sc_out>>
appVars   == <<now, fixturesFile, picksFile, resultsFile, cfg, pc, snap, sub, shown, runs>>
storeVars == <<store, file, tmp, lock, ppc, parg, waited, wrote, seen, fdOpen>>
loadVars  == <<ld_kind, ld_in, ld_file, ld_out>>
domVars   == <<files, locks, wpc, wpath, warg, wwaited>>
vars      == <<scoreVars, appVars, storeVars, loadVars, domVars>>

---------------------------------------------------------------------------
(* Bounds of the model *)

MaxPickRows == 2      \* rows of the picks argument of compute_scores
MaxResultRows == 1    \* rows of the results argument of compute_scores

\* goals entered in the model (the number_input widgets allow 0..20)
Goals == {0, 1}
MatchIds == {1, 2}

---------------------------------------------------------------------------
(* Strings.  A name is a sequence of characters, so that strip(), lower()  *)
(* and the ordering of str are computed rather than assumed.               *)

Chars == {" ", "A", "B", "a", "b"}

\* ord(c)
Ord(c) ==
    CASE c = " " -> 32
      [] c = "A" -> 65
      [] c = "B" -> 66
      [] c = "a" -> 97
      [] c = "b" -> 98

\* str.lower(), one character
LowerChar(c) ==
    CASE c = "A" -> "a"
      [] c = "B" -> "b"
      [] OTHER -> c

\* str.lower()
Lower(s) == [i \in 1..Len(s) |-> LowerChar(s[i])]

RECURSIVE LStrip(_)
LStrip(s) == IF s # <<>> /\ Head(s) = " " THEN LStrip(Tail(s)) ELSE s

RECURSIVE RStrip(_)
RStrip(s) ==
    IF s # <<>> /\ s[Len(s)] = " " THEN RStrip(SubSeq(s, 1, Len(s) - 1)) ELSE s

\* str.strip()
Strip(s) == RStrip(LStrip(s))

\* s < t for str: lexicographic by code point
RECURSIVE StrLess(_, _)
StrLess(s, t) ==
    IF t = <<>> THEN FALSE
    ELSE IF s = <<>> THEN TRUE
    ELSE IF Head(s) # Head(t) THEN Ord(Head(s)) < Ord(Head(t))
    ELSE StrLess(Tail(s), Tail(t))

---------------------------------------------------------------------------
(* Generic table helpers (DataFrame as a sequence of rows)                 *)

Range(t) == {t[i] : i \in 1..Len(t)}

RECURSIVE SumSeq(_)
SumSeq(t) == IF t = <<>> THEN 0 ELSE Head(t) + SumSeq(Tail(t))

SeqsUpTo(S, n) == UNION {[1..k -> S] : k \in 0..n}

---------------------------------------------------------------------------
(* Scoring engine                                                          *)

\* a wrong outcome, for comparison: a draw counted as a home win
outcome_ge(h, a) ==
    IF h >= a THEN "H" ELSE "A"

\* def outcome(h, a)
outcome(h, a) ==
    IF h > a THEN "H"
    ELSE IF h < a THEN "A"
    ELSE "D"

\* picks.merge(results, on="match_id", how="inner"): for every pick row, in
\* order, one joined row per result row with the same match_id
MergeInner(picks, results) ==
    LET joinOne(p) ==
            LET match(r) == r.match_id = p.match_id
                hit == SelectSeq(results, match)
            IN  [j \in 1..Len(hit) |->
                    [name |-> p.name, match_id |-> p.match_id,
                     home_pred |-> p.home_pred, away_pred |-> p.away_pred,
                     home_goals |-> hit[j].home_goals, away_goals |-> hit[j].away_goals]]
        J[i \in 0..Len(picks)] == IF i = 0 THEN <<>> ELSE J[i - 1] \o joinOne(picks[i])
    IN  J[Len(picks)]

\* a wrong scoring, for comparison: an exact row earns both amounts
RowPointsAdditive(r, points_exact, points_outcome) ==
    LET exact == r.home_pred = r.home_goals /\ r.away_pred = r.away_goals
        same_outcome == outcome(r.home_pred, r.away_pred) = outcome(r.home_goals, r.away_goals)
    IN  (IF same_outcome THEN points_outcome ELSE 0) + (IF exact THEN points_exact ELSE 0)

\* the three assignments to df["points"], in the order of the code
RowPoints(r, points_exact, points_outcome) ==
    LET exact == r.home_pred = r.home_goals /\ r.away_pred = r.away_goals
        same_outcome == outcome(r.home_pred, r.away_pred) = outcome(r.home_goals, r.away_goals)
        p0 == 0
        p1 == IF same_outcome THEN points_outcome ELSE p0
        p2 == IF exact THEN points_exact ELSE p1
    IN  p2

\* df with its "points" column, restricted to detail_cols
Detail(picks, results, points_exact, points_outcome) ==
    LET df == MergeInner(picks, results)
    IN  [i \in 1..Len(df) |->
            [name |-> df[i].name, match_id |-> df[i].match_id,
             home_pred |-> df[i].home_pred, away_pred |-> df[i].away_pred,
             home_goals |-> df[i].home_goals, away_goals |-> df[i].away_goals,
             points |-> RowPoints(df[i], points_exact, points_outcome)]]

\* the distinct values of a set of names, ascending
RECURSIVE SortedNames(_)
SortedNames(S) ==
    IF S = {} THEN <<>>
    ELSE LET m == CHOOSE x \in S : \A y \in S \ {x} : StrLess(x, y)
         IN  <<m>> \o SortedNames(S \ {m})

\* the name cell pd.read_csv returns for a stored name such as NA, nan or null:
\* a missing value, not a text
NaN == <<"NaN">>

\* df.groupby("name", as_index=False)["points"].sum(): one row per name, by key;
\* groupby leaves out the rows whose key is missing (dropna=True by default)
GroupBySum(detail) ==
    LET names == SortedNames({detail[i].name : i \in 1..Len(detail)} \ {NaN})
        total(n) == LET mine(r) == r.name = n
                        rows == SelectSeq(detail, mine)
                    IN  SumSeq([i \in 1..Len(rows) |-> rows[i].points])
    IN  [k \in 1..Len(names) |-> [name |-> names[k], points |-> total(names[k])]]

\* a wrong order, for comparison: points ascending
SortValuesAscending(g) ==
    LET before(x, y) == \/ x.points < y.points
                        \/ x.points = y.points /\ StrLess(x.name, y.name)
    IN  SortSeq(g, before)

\* .sort_values(["points", "name"], ascending=[False, True])
SortValues(g) ==
    LET before(x, y) == \/ x.points > y.points
                        \/ x.points = y.points /\ StrLess(x.name, y.name)
    IN  SortSeq(g, before)

Ranking(detail) == SortValues(GroupBySum(detail))

\* def compute_scores(fixtures, picks, results, points_exact, points_outcome)
compute_scores(fixtures, picks, results, points_exact, points_outcome) ==
    IF picks = <<>> \/ results = <<>>
    THEN [ranking |-> <<>>, detail |-> <<>>]
    ELSE LET detail == Detail(picks, results, points_exact, points_outcome)
         IN  IF detail = <<>>
             THEN [ranking |-> <<>>, detail |-> <<>>]
             ELSE [ranking |-> Ranking(detail), detail |-> detail]

---------------------------------------------------------------------------
(* SpecScore: compute_scores on every input within the bounds              *)

ScoreNames == {<<"a">>, <<"A">>, NaN}
\* the config form allows 1..10 and 0..5
PointsExactVals == {3}
PointsOutcomeVals == {1, 5}
NotCalled == [called |-> FALSE, ranking |-> <<>>, detail |-> <<>>]

PickRowsIn ==
    [name : ScoreNames, match_id : MatchIds, home_pred : Goals, away_pred : Goals,
     ts_utc : {0}]
\* the final scores entered as results: two draws and a home win
ResultScores == {<<0, 0>>, <<1, 1>>, <<1, 0>>}
ResultRowsIn ==
    {[match_id |-> m, home_goals |-> sc[1], away_goals |-> sc[2]] :
        m \in MatchIds, sc \in ResultScores}

ScoreInit ==
    /\ sc_picks \in SeqsUpTo(PickRowsIn, MaxPickRows)
    /\ sc_results \in SeqsUpTo(ResultRowsIn, MaxResultRows)
    /\ sc_pe \in PointsExactVals
    /\ sc_po \in PointsOutcomeVals
    /\ sc_out = NotCalled

\* the call at the ranking tab
ComputeScores ==
    /\ ~sc_out.called
    /\ sc_out' = LET r == compute_scores(<<>>, sc_picks, sc_results, sc_pe, sc_po)
                 IN  [called |-> TRUE, ranking |-> r.ranking, detail |-> r.detail]
    /\ UNCHANGED <<sc_picks, sc_results, sc_pe, sc_po>>
    /\ UNCHANGED <<appVars, storeVars, loadVars, domVars>>

---------------------------------------------------------------------------
(* Time gate                                                               *)

MaxTime == 1          \* the clock runs over 0..MaxTime

None == [ok |-> FALSE, t |-> 0]

\* The kickoff texts of the model and the instant strptime gives for each
\* well-formed one, on the model's clock.
KickoffInstant ==
    ("2025-09-15 19:00" :> 0) @@ ("2025-09-16 19:00" :> 1) @@ ("2025-09-17 19:00" :> 2)

\* a wrong gate, for comparison: a match is still open at its kickoff instant
is_locked_after(kickoff_utc) ==
    LET dt == IF kickoff_utc \in DOMAIN KickoffInstant
              THEN [ok |-> TRUE, t |-> KickoffInstant[kickoff_utc]]
              ELSE [ok |-> FALSE, t |-> 0]
    IN  IF ~dt.ok THEN FALSE ELSE now > dt.t

\* def parse_to_aware_utc(s): None for empty, "nan" or unparsable text
parse_to_aware_utc(s) ==
    IF s \in {"", " ", "nan"} THEN None
    ELSE IF s \in DOMAIN KickoffInstant THEN [ok |-> TRUE, t |-> KickoffInstant[s]]
    ELSE None

\* def is_locked(kickoff_utc)
is_locked(kickoff_utc) ==
    LET dt == parse_to_aware_utc(kickoff_utc)
    IN  IF ~dt.ok THEN FALSE ELSE now >= dt.t

---------------------------------------------------------------------------
(* Stored tables                                                           *)

DEFAULT_CONFIG ==
    [points_exact |-> 3, points_outcome |-> 1,
     admin_password |-> "admin123", show_local_time |-> TRUE]

Fx(id, stage, kickoff, home, away) ==
    [match_id |-> id, stage |-> stage, kickoff_utc |-> kickoff, home |-> home, away |-> away]

\* fixtures.csv files an admin uploads: two rounds; the second round alone
\* (match 1 withdrawn); the header-only template
FxBoth == << Fx(1, "J1", "2025-09-16 19:00", "Real Madrid", "Inter"),
             Fx(2, "J2", "2025-09-17 19:00", "Man City", "Bayern") >>
FxSecond == << Fx(2, "J2", "2025-09-17 19:00", "Man City", "Bayern") >>
FixtureTables == {FxBoth, FxSecond, <<>>}

Stages == {"J1", "J2"}
\* "J1" < "J2" as str
StageLess(x, y) == x = "J1" /\ y = "J2"

Sessions == {1, 2}
MaxRuns == 2          \* script runs over all sessions, in Spec
MaxAdminRuns == 3     \* script runs, in SpecAdmin

\* what the user typed in "Tu nombre (Alias)"
NameInputs == {<<>>, <<" ">>, <<"a">>, <<"A">>, <<" ", "a">>, <<"b">>}
Passwords == {"admin123", "guess"}
\* the values of the number_input widgets, by match_id
WidgetIds == {0} \cup MatchIds
WidgetVals == {[m \in WidgetIds |-> [h |-> 1, a |-> 0]], [m \in WidgetIds |-> [h |-> 0, a |-> 1]]}

NoSnap == [picks |-> <<>>, fixtures |-> <<>>, results |-> <<>>]
NoSub == [name |-> <<>>, new_rows |-> <<>>]
NoView == [ranking |-> <<>>, detail |-> <<>>]
NoShown == [session |-> 0, button |-> "none", name |-> <<>>, pwd |-> "", msg |-> "none",
            ranking |-> <<>>, detail |-> <<>>]

\* fx.sort_values(['_dt','stage','match_id']), NaT last
SortFixtures(fx) ==
    LET dt(r) == parse_to_aware_utc(r.kickoff_utc)
        before(x, y) ==
            \/ dt(x).ok /\ ~dt(y).ok
            \/ dt(x).ok /\ dt(y).ok /\ dt(x).t < dt(y).t
            \/ /\ (dt(x).ok = dt(y).ok) /\ (dt(x).ok => dt(x).t = dt(y).t)
               /\ \/ StageLess(x.stage, y.stage)
                  \/ x.stage = y.stage /\ x.match_id < y.match_id
    IN  SortSeq(fx, before)

\* the options of "Filtrar por jornada / etapa": ["Todas"] + stages
StageChoices(fx) == {"Todas"} \cup {fx[i].stage : i \in 1..Len(fx)}

\* the fixtures shown: sorted, then fx[fx['stage']==stage_filter] unless "Todas"
Displayed(fx, stage_filter) ==
    LET visible(r) == stage_filter = "Todas" \/ r.stage = stage_filter
    IN  SelectSeq(SortFixtures(fx), visible)

\* a wrong widget registry, for comparison: a repeated key is accepted
DuplicateKeyAllowed(rows) == FALSE

\* the cards of rows carry number_input widgets keyed by match_id
\* (key=f"h_{match_id}", key=f"res_h_{match_id}"): a second card with a
\* match_id already rendered in the run raises Streamlit's duplicate-key
\* exception, which ends the script run
DuplicateKey(rows) ==
    \E i, j \in 1..Len(rows) : i < j /\ rows[i].match_id = rows[j].match_id

\* the participar tab, which comes first in the script, renders its cards
\* under some choice of its stage filter
TabsAboveRender(fx) ==
    fx = <<>> \/ \E f \in StageChoices(fx) : ~DuplicateKey(Displayed(fx, f))

---------------------------------------------------------------------------
(* Submission coordinator: the "Enviar/Actualizar" handler                 *)

\* the loop over fx.iterrows(): one new row per displayed fixture that is open
NewRows(fx, name, vals) ==
    LET open(r) == ~is_locked(r.kickoff_utc)
        rows == SelectSeq(fx, open)
    IN  [i \in 1..Len(rows) |->
            [name |-> Strip(name), match_id |-> rows[i].match_id,
             home_pred |-> vals[rows[i].match_id].h,
             away_pred |-> vals[rows[i].match_id].a,
             ts_utc |-> now]]

\* keep = ~(name matches & match_id in open_ids); concat([picks[keep], df_new])
MergePicks(picks, name, new_rows) ==
    LET open_ids == {new_rows[i].match_id : i \in 1..Len(new_rows)}
        keep(r) == ~(Lower(r.name) = Lower(name) /\ r.match_id \in open_ids)
    IN  SelectSeq(picks, keep) \o new_rows

---------------------------------------------------------------------------
(* Ranking tab                                                             *)

\* what the ranking tab shows: the ranking, and the detail joined to the teams
\* of the fixtures loaded now, sorted by name and match_id
RankingTab(picks, results, fixtures_now, c) ==
    LET out == IF picks # <<>>
               THEN compute_scores(fixtures_now, picks, results,
                                   c.points_exact, c.points_outcome)
               ELSE NoView
        teamsOf(d) ==
            LET same(f) == f.match_id = d.match_id
                hit == SelectSeq(fixtures_now, same)
                row(home, away) ==
                    [name |-> d.name, match_id |-> d.match_id, home |-> home, away |-> away,
                     home_pred |-> d.home_pred, away_pred |-> d.away_pred,
                     home_goals |-> d.home_goals, away_goals |-> d.away_goals,
                     points |-> d.points]
            IN  IF hit = <<>> THEN << row("NaN", "NaN") >>
                ELSE [j \in 1..Len(hit) |-> row(hit[j].home, hit[j].away)]
        J[i \in 0..Len(out.detail)] ==
            IF i = 0 THEN <<>> ELSE J[i - 1] \o teamsOf(out.detail[i])
        before(x, y) == \/ StrLess(x.name, y.name)
                        \/ x.name = y.name /\ x.match_id < y.match_id
    IN  IF out.ranking = <<>> THEN NoView
        ELSE IF out.detail # <<>> /\ fixtures_now # <<>>
             THEN [ranking |-> out.ranking, detail |-> SortSeq(J[Len(out.detail)], before)]
             ELSE [ranking |-> out.ranking, detail |-> <<>>]

---------------------------------------------------------------------------
(* Spec: sessions                                                          *)

AppInit ==
    /\ now = 0
    /\ fixturesFile \in FixtureTables
    /\ picksFile = <<>>
    /\ resultsFile = <<>>
    /\ cfg = DEFAULT_CONFIG
    /\ pc = [s \in Sessions |-> "idle"]
    /\ snap = [s \in Sessions |-> NoSnap]
    /\ sub = [s \in Sessions |-> NoSub]
    /\ shown = NoShown
    /\ runs = 0

\* the clock advances
Tick ==
    /\ now < MaxTime
    /\ now' = now + 1
    /\ shown' = NoShown
    /\ UNCHANGED <<fixturesFile, picksFile, resultsFile, cfg, pc, snap, sub, runs>>
    /\ UNCHANGED <<scoreVars, storeVars, loadVars, domVars>>

\* a script run starts: cfg, fixtures, picks, results are loaded
RunStart(s) ==
    /\ pc[s] = "idle"
    /\ runs' = runs + 1
    /\ pc' = [pc EXCEPT ![s] = "loaded"]
    /\ snap' = [snap EXCEPT ![s] = [picks |-> picksFile, fixtures |-> fixturesFile,
                                    results |-> resultsFile]]
    /\ shown' = NoShown
    /\ UNCHANGED <<now, fixturesFile, picksFile, resultsFile, cfg, sub>>
    /\ UNCHANGED <<scoreVars, storeVars, loadVars, domVars>>

\* the rest of the run after the handler of button, with name in the alias box
\* and pwd in the admin tab's password box, reported m: the ranking tab renders
\* from the tables loaded at the top and the fixtures file as it is now
EndRunAs(s, button, name, pwd, m, fixtures_now) ==
    /\ pc' = [pc EXCEPT ![s] = "idle"]
    /\ snap' = [snap EXCEPT ![s] = NoSnap]
    /\ sub' = [sub EXCEPT ![s] = NoSub]
    /\ shown' = LET v == RankingTab(snap[s].picks, snap[s].results, fixtures_now, cfg)
                IN  [session |-> s, button |-> button, name |-> name, pwd |-> pwd,
                     msg |-> m, ranking |-> v.ranking, detail |-> v.detail]

\* ... with nothing typed in the password box
EndRun(s, button, name, m, fixtures_now) == EndRunAs(s, button, name, "", m, fixtures_now)

\* the run ends at an exception raised while rendering: nothing below is run
Crashed(s, button, pwd) ==
    /\ pc' = [pc EXCEPT ![s] = "idle"]
    /\ snap' = [snap EXCEPT ![s] = NoSnap]
    /\ sub' = [sub EXCEPT ![s] = NoSub]
    /\ shown' = [session |-> s, button |-> button, name |-> <<>>, pwd |-> pwd,
                 msg |-> "exception: duplicate widget key", ranking |-> <<>>,
                 detail |-> <<>>]

\* a run that ends in the participar tab, at a card with a repeated match_id
RenderFails(s, stage_filter) ==
    /\ pc[s] = "loaded"
    /\ stage_filter \in StageChoices(snap[s].fixtures)
    /\ DuplicateKey(Displayed(snap[s].fixtures, stage_filter))
    /\ Crashed(s, "none", "")
    /\ UNCHANGED <<now, fixturesFile, picksFile, resultsFile, cfg, runs>>
    /\ UNCHANGED <<scoreVars, storeVars, loadVars, domVars>>

\* a run in which no button was pressed
ViewOnly(s) ==
    /\ pc[s] = "loaded"
    /\ TabsAboveRender(snap[s].fixtures)
    /\ EndRun(s, "none", <<>>, "none", fixturesFile)
    /\ UNCHANGED <<now, fixturesFile, picksFile, resultsFile, cfg, runs>>
    /\ UNCHANGED <<scoreVars, storeVars, loadVars, domVars>>

\* a wrong handler, for comparison: the submit handler without lines 337-340
SubmitCheckUnvalidated(s, name, stage_filter, vals) ==
    /\ pc[s] = "loaded"
    /\ stage_filter \in StageChoices(snap[s].fixtures)
    /\ ~DuplicateKey(Displayed(snap[s].fixtures, stage_filter))
    /\ LET new_rows == NewRows(Displayed(snap[s].fixtures, stage_filter), name, vals)
       IN  IF new_rows # <<>>
           THEN /\ pc' = [pc EXCEPT ![s] = "checked"]
                /\ sub' = [sub EXCEPT ![s] = [name |-> name, new_rows |-> new_rows]]
                /\ shown' = NoShown
                /\ UNCHANGED snap
           ELSE EndRun(s, "submit", name,
                       "info: No habia partidos abiertos para actualizar.",
                       fixturesFile)
    /\ UNCHANGED <<now, fixturesFile, picksFile, resultsFile, cfg, runs>>
    /\ UNCHANGED <<scoreVars, storeVars, loadVars, domVars>>

\* "Enviar/Actualizar mis pronosticos" pressed: validation and the new rows
SubmitCheck(s, name, stage_filter, vals) ==
    /\ pc[s] = "loaded"
    /\ stage_filter \in StageChoices(snap[s].fixtures)
    /\ ~DuplicateKey(Displayed(snap[s].fixtures, stage_filter))
    /\ IF name = <<>> \/ Strip(name) = <<>>
       THEN EndRun(s, "submit", name, "error: Ingresa tu nombre.", fixturesFile)
       ELSE IF snap[s].fixtures = <<>>
       THEN EndRun(s, "submit", name, "warning: No hay fixtures cargados.", fixturesFile)
       ELSE LET new_rows == NewRows(Displayed(snap[s].fixtures, stage_filter), name, vals)
            IN  IF new_rows # <<>>
                THEN /\ pc' = [pc EXCEPT ![s] = "checked"]
                     /\ sub' = [sub EXCEPT ![s] = [name |-> name, new_rows |-> new_rows]]
                     /\ shown' = NoShown
                     /\ UNCHANGED snap
                ELSE EndRun(s, "submit", name,
                            "info: No habia partidos abiertos para actualizar.",
                            fixturesFile)
    /\ UNCHANGED <<now, fixturesFile, picksFile, resultsFile, cfg, runs>>
    /\ UNCHANGED <<scoreVars, storeVars, loadVars, domVars>>

\* ... the merge into the loaded picks and save_picks
SubmitSave(s) ==
    /\ pc[s] = "checked"
    /\ picksFile' = MergePicks(snap[s].picks, sub[s].name, sub[s].new_rows)
    /\ EndRun(s, "submit", sub[s].name, "success: Pronosticos guardados/actualizados!",
              fixturesFile)
    /\ UNCHANGED <<now, fixturesFile, resultsFile, cfg, runs>>
    /\ UNCHANGED <<scoreVars, storeVars, loadVars, domVars>>

---------------------------------------------------------------------------
(* Admin tab                                                               *)

\* expected = secret_pwd or cfg["admin_password"], with no ADMIN_PASSWORD secret
Expected == cfg.admin_password

\* fx_admin.merge(res_admin, on="match_id", how="left"), missing goals as 0
BaseLeftMerge(fx_admin, res_admin) ==
    LET rowsOf(f) ==
            LET same(r) == r.match_id = f.match_id
                hit == SelectSeq(res_admin, same)
            IN  IF hit = <<>> THEN << f >> ELSE [j \in 1..Len(hit) |-> f]
        J[i \in 0..Len(fx_admin)] == IF i = 0 THEN <<>> ELSE J[i - 1] \o rowsOf(fx_admin[i])
    IN  J[Len(fx_admin)]

\* for stage, df_stage in base.groupby('stage', sort=False): the rows stage by
\* stage, stages in order of first appearance
GroupByStage(base) ==
    LET G[i \in 0..Len(base)] ==
            IF i = 0 THEN <<>>
            ELSE IF \E j \in 1..(i - 1) : base[j].stage = base[i].stage THEN G[i - 1]
            ELSE LET same(r) == r.stage = base[i].stage
                 IN  G[i - 1] \o SelectSeq(base, same)
    IN  G[Len(base)]

\* the edits list: one entry per card rendered, goals from the result widgets
Edits(fx_admin, res_admin, stage_filter, vals) ==
    LET base == GroupByStage(Displayed(BaseLeftMerge(fx_admin, res_admin), stage_filter))
    IN  [i \in 1..Len(base) |->
            [match_id |-> base[i].match_id,
             home_goals |-> vals[base[i].match_id].h,
             away_goals |-> vals[base[i].match_id].a]]

\* "Guardar resultados" pressed by a session that passed the password gate
AdminSaveResults(s, pwd, stage_filter, vals) ==
    /\ pc[s] = "loaded"
    /\ pwd = Expected
    /\ TabsAboveRender(snap[s].fixtures)
    /\ fixturesFile # <<>>
    /\ stage_filter \in StageChoices(fixturesFile)
    /\ LET edits == Edits(fixturesFile, snap[s].results, stage_filter, vals)
       IN  IF DuplicateKey(edits)
           THEN /\ UNCHANGED resultsFile
                /\ Crashed(s, "none", pwd)
           ELSE IF edits # <<>>
           THEN /\ resultsFile' = edits
                /\ EndRunAs(s, "save_results", <<>>, pwd, "success: Resultados guardados.",
                          fixturesFile)
           ELSE /\ UNCHANGED resultsFile
                /\ EndRunAs(s, "save_results", <<>>, pwd, "info: No hay partidos para guardar.",
                          fixturesFile)
    /\ UNCHANGED <<now, fixturesFile, picksFile, cfg, runs>>
    /\ UNCHANGED <<scoreVars, storeVars, loadVars, domVars>>

\* "Subir fixtures.csv": the uploaded table replaces the fixtures file; the
\* run goes on to the results editor on the new fixtures, under its stage filter
AdminUpload(s, pwd, new_fx) ==
    /\ pc[s] = "loaded"
    /\ pwd = Expected
    /\ TabsAboveRender(snap[s].fixtures)
    /\ fixturesFile' = new_fx
    /\ \E stage_filter \in StageChoices(new_fx) :
          IF DuplicateKey(Edits(new_fx, snap[s].results, stage_filter,
                                CHOOSE vals \in WidgetVals : TRUE))
          THEN Crashed(s, "upload", pwd)
          ELSE EndRunAs(s, "upload", <<>>, pwd, "success: Fixtures actualizados.", new_fx)
    /\ UNCHANGED <<now, picksFile, resultsFile, cfg, runs>>
    /\ UNCHANGED <<scoreVars, storeVars, loadVars, domVars>>

\* fixtures.csv files as uploaded, match_id as text: well-formed ids in two
\* stages; ids that are no numbers, in two stages; one id twice in one stage
RawBoth == << Fx("1", "J1", "2025-09-16 19:00", "Real Madrid", "Inter"),
              Fx("2", "J2", "2025-09-17 19:00", "Man City", "Bayern") >>
RawMalformed == << Fx("x", "J1", "2025-09-16 19:00", "Real Madrid", "Inter"),
                   Fx("", "J2", "2025-09-17 19:00", "Man City", "Bayern") >>
RawRepeated == << Fx("1", "J1", "2025-09-16 19:00", "Real Madrid", "Inter"),
                  Fx("1", "J1", "2025-09-16 19:00", "Man City", "Bayern") >>
RawUploads == {RawBoth, RawMalformed, RawRepeated}

\* pd.to_numeric(text, errors="coerce"), then fillna(0).astype(int)
ToNumericFillna0(text) ==
    IF text = "1" THEN 1 ELSE IF text = "2" THEN 2 ELSE 0

\* new_fx["match_id"] = pd.to_numeric(...).fillna(0).astype(int)
CoerceMatchIds(raw) ==
    [i \in 1..Len(raw) |-> [raw[i] EXCEPT !.match_id = ToNumericFillna0(@)]]

---------------------------------------------------------------------------
(* Config tab                                                              *)

\* what the form can hold: points_exact in 1..10, points_outcome in 0..5, any
\* text as admin password
ConfigForms ==
    { [points_exact |-> 1, points_outcome |-> 5, admin_password |-> "admin123",
       show_local_time |-> TRUE],
      [points_exact |-> 3, points_outcome |-> 1, admin_password |-> "guess",
       show_local_time |-> TRUE] }

\* "Guardar Configuracion" pressed, by a session with pwd in the admin tab's
\* password box: save_config(form)
SaveConfig(s, pwd, form) ==
    /\ pc[s] = "loaded"
    /\ TabsAboveRender(snap[s].fixtures)
    /\ cfg' = form
    /\ EndRunAs(s, "save_config", <<>>, pwd, "success: Configuracion guardada.", fixturesFile)
    /\ UNCHANGED <<now, fixturesFile, picksFile, resultsFile, runs>>
    /\ UNCHANGED <<scoreVars, storeVars, loadVars, domVars>>

---------------------------------------------------------------------------
(* Persistent store: one CSV file (picks.csv; results.csv has the same     *)
(* code), its .tmp and its .lock, used by concurrent processes             *)

NumProcs == 2         \* processes using the store
Procs == 1..NumProcs

\* _locked(path, timeout=5)
LOCK_TIMEOUT == 5

\* File contents: no file; a file of zero bytes (opened for writing, nothing
\* written yet); the header-only table; a complete table; a table in part.
SavedTables == {"T1", "T2"}
HeaderOnly == "header"
Partial(t) == IF t = "T1" THEN "T1 (in part)" ELSE "T2 (in part)"
CompleteContents == {HeaderOnly} \cup SavedTables

StoreInit ==
    /\ store = "csv"
    /\ file = "missing"
    /\ tmp = "missing"
    /\ lock = 0
    /\ fdOpen = {}
    /\ ppc = [p \in Procs |-> "idle"]
    /\ parg = [p \in Procs |-> "none"]
    /\ waited = [p \in Procs |-> 0]
    /\ wrote = [p \in Procs |-> FALSE]
    /\ seen = [p \in Procs |-> "none"]

StoreIdle == StoreInit

\* save_picks(df) is called
SaveStart(p, t) ==
    /\ ppc[p] = "idle"
    /\ ppc' = [ppc EXCEPT ![p] = "acquire"]
    /\ parg' = [parg EXCEPT ![p] = t]
    /\ waited' = [waited EXCEPT ![p] = 0]
    /\ wrote' = [wrote EXCEPT ![p] = FALSE]
    /\ seen' = [seen EXCEPT ![p] = "none"]
    /\ UNCHANGED <<file, tmp, lock, fdOpen>>
    /\ UNCHANGED <<store, scoreVars, appVars, loadVars, domVars>>

\* lock.acquire(): the lock is free
Acquire(p) ==
    /\ ppc[p] = "acquire"
    /\ lock = 0
    /\ lock' = p
    /\ ppc' = [ppc EXCEPT ![p] = "open_tmp"]
    /\ UNCHANGED <<file, tmp, fdOpen, parg, waited, wrote, seen>>
    /\ UNCHANGED <<store, scoreVars, appVars, loadVars, domVars>>

\* lock.acquire(): the lock is held and the timeout has not passed; poll again
Wait(p) ==
    /\ ppc[p] = "acquire"
    /\ lock # 0
    /\ waited[p] < LOCK_TIMEOUT
    /\ waited' = [waited EXCEPT ![p] = @ + 1]
    /\ UNCHANGED <<file, tmp, lock, fdOpen, ppc, parg, wrote, seen>>
    /\ UNCHANGED <<store, scoreVars, appVars, loadVars, domVars>>

\* a wrong acquire, for comparison: the save goes on without the lock
LockTimeoutIgnored(p) ==
    /\ ppc[p] = "acquire"
    /\ lock # 0
    /\ waited[p] = LOCK_TIMEOUT
    /\ ppc' = [ppc EXCEPT ![p] = "open_tmp"]
    /\ UNCHANGED <<file, tmp, lock, fdOpen, parg, waited, wrote, seen>>
    /\ UNCHANGED <<store, scoreVars, appVars, loadVars, domVars>>

\* lock.acquire(): still held after the timeout: Timeout is raised, before the
\* try block, and leaves save_picks
LockTimeout(p) ==
    /\ ppc[p] = "acquire"
    /\ lock # 0
    /\ waited[p] = LOCK_TIMEOUT
    /\ ppc' = [ppc EXCEPT ![p] = "timeout_raised"]
    /\ UNCHANGED <<file, tmp, lock, fdOpen, parg, waited, wrote, seen>>
    /\ UNCHANGED <<store, scoreVars, appVars, loadVars, domVars>>

\* df.to_csv(tmp): the temporary file is opened for writing (created or truncated)
OpenTmp(p) ==
    /\ ppc[p] = "open_tmp"
    /\ tmp' = ""
    /\ wrote' = [wrote EXCEPT ![p] = TRUE]
    /\ ppc' = [ppc EXCEPT ![p] = "write_tmp"]
    /\ UNCHANGED <<file, lock, fdOpen, parg, waited, seen>>
    /\ UNCHANGED <<store, scoreVars, appVars, loadVars, domVars>>

\* df.to_csv(tmp): the rows are written, first in part, then all and closed
WriteTmp(p) ==
    /\ ppc[p] \in {"write_tmp", "finish_tmp"}
    /\ IF ppc[p] = "write_tmp"
       THEN /\ tmp' = Partial(parg[p])
            /\ ppc' = [ppc EXCEPT ![p] = "finish_tmp"]
       ELSE /\ tmp' = parg[p]
            /\ ppc' = [ppc EXCEPT ![p] = "replace"]
    /\ UNCHANGED <<file, lock, fdOpen, parg, waited, wrote, seen>>
    /\ UNCHANGED <<store, scoreVars, appVars, loadVars, domVars>>

\* tmp.replace(path): the rename puts the temporary file's content under the
\* canonical name; a descriptor opened on the old file no longer reaches it
Replace(p) ==
    /\ ppc[p] = "replace"
    /\ file' = tmp
    /\ tmp' = "missing"
    /\ fdOpen' = {}
    /\ ppc' = [ppc EXCEPT ![p] = "release"]
    /\ UNCHANGED <<lock, parg, waited, wrote, seen>>
    /\ UNCHANGED <<store, scoreVars, appVars, loadVars, domVars>>

\* _write_atomic_csv or write_text raises inside the with block (the disk is
\* full, the rename is refused): the files stay as the write left them, and
\* the error leaves the block through the finally clause
WriteFails(p) ==
    /\ ppc[p] \in {"open_tmp", "write_tmp", "finish_tmp", "replace", "write_text",
                   "finish_text"}
    /\ ppc' = [ppc EXCEPT ![p] = "release_exc"]
    /\ UNCHANGED <<file, tmp, lock, fdOpen, parg, waited, wrote, seen>>
    /\ UNCHANGED <<store, scoreVars, appVars, loadVars, domVars>>

\* a wrong exit, for comparison: the block is left with the lock still held
ReleaseForgotten(p) ==
    /\ ppc[p] \in {"release", "release_exc"}
    /\ ppc' = [ppc EXCEPT ![p] = IF ppc[p] = "release" THEN "saved" ELSE "write_raised"]
    /\ UNCHANGED <<file, tmp, lock, fdOpen, parg, waited, wrote, seen>>
    /\ UNCHANGED <<store, scoreVars, appVars, loadVars, domVars>>

\* finally: lock.release(), after the block has ended or raised; the save
\* then returns, or the error goes on to the caller
Release(p) ==
    /\ ppc[p] \in {"release", "release_exc"}
    /\ lock' = IF lock = p THEN 0 ELSE lock
    /\ ppc' = [ppc EXCEPT ![p] = IF ppc[p] = "release" THEN "saved" ELSE "write_raised"]
    /\ UNCHANGED <<file, tmp, fdOpen, parg, waited, wrote, seen>>
    /\ UNCHANGED <<store, scoreVars, appVars, loadVars, domVars>>

\* load_picks() is called: PICKS_CSV.exists()
LoadStart(p) ==
    /\ ppc[p] = "idle"
    /\ ppc' = [ppc EXCEPT ![p] = IF file = "missing" THEN "create_open" ELSE "read"]
    /\ parg' = [parg EXCEPT ![p] = "none"]
    /\ waited' = [waited EXCEPT ![p] = 0]
    /\ wrote' = [wrote EXCEPT ![p] = FALSE]
    /\ seen' = [seen EXCEPT ![p] = "none"]
    /\ UNCHANGED <<file, tmp, lock, fdOpen>>
    /\ UNCHANGED <<store, scoreVars, appVars, loadVars, domVars>>

\* pd.DataFrame(columns=cols).to_csv(PICKS_CSV): the canonical file is opened
\* for writing, which creates it or cuts it to zero bytes
CreateOpen(p) ==
    /\ ppc[p] = "create_open"
    /\ file' = ""
    /\ fdOpen' = fdOpen \cup {p}
    /\ wrote' = [wrote EXCEPT ![p] = TRUE]
    /\ ppc' = [ppc EXCEPT ![p] = "create_write"]
    /\ UNCHANGED <<tmp, lock, parg, waited, seen>>
    /\ UNCHANGED <<store, scoreVars, appVars, loadVars, domVars>>

\* ... the header line is written and the file closed
CreateWrite(p) ==
    /\ ppc[p] = "create_write"
    /\ file' = IF p \in fdOpen THEN HeaderOnly ELSE file
    /\ fdOpen' = fdOpen \ {p}
    /\ ppc' = [ppc EXCEPT ![p] = "read"]
    /\ UNCHANGED <<tmp, lock, parg, waited, wrote, seen>>
    /\ UNCHANGED <<store, scoreVars, appVars, loadVars, domVars>>

\* pd.read_csv(PICKS_CSV): a file of zero bytes raises EmptyDataError
ReadCsv(p) ==
    /\ ppc[p] = "read"
    /\ seen' = [seen EXCEPT ![p] = file]
    /\ ppc' = [ppc EXCEPT ![p] = IF file = "" THEN "load_raised" ELSE "loaded"]
    /\ UNCHANGED <<file, tmp, lock, fdOpen, parg, waited, wrote>>
    /\ UNCHANGED <<store, scoreVars, appVars, loadVars, domVars>>

\* the call has returned or raised; the process is free for its next call
Return(p) ==
    /\ ppc[p] \in {"saved", "timeout_raised", "write_raised", "loaded", "load_raised"}
    /\ ppc' = [ppc EXCEPT ![p] = "idle"]
    /\ UNCHANGED <<file, tmp, lock, fdOpen, parg, waited, wrote, seen>>
    /\ UNCHANGED <<store, scoreVars, appVars, loadVars, domVars>>

\* save_config: CONFIG_JSON.write_text(...) inside the with block (whose start
\* is the position "open_tmp"): the canonical file is opened for writing,
\* which cuts it to zero bytes
WriteTextOpen(p) ==
    /\ ppc[p] = "open_tmp"
    /\ file' = ""
    /\ wrote' = [wrote EXCEPT ![p] = TRUE]
    /\ ppc' = [ppc EXCEPT ![p] = "write_text"]
    /\ UNCHANGED <<tmp, lock, fdOpen, parg, waited, seen>>
    /\ UNCHANGED <<store, scoreVars, appVars, loadVars, domVars>>

\* ... the text is written, first in part, then all and closed
WriteText(p) ==
    /\ ppc[p] \in {"write_text", "finish_text"}
    /\ IF ppc[p] = "write_text"
       THEN /\ file' = Partial(parg[p])
            /\ ppc' = [ppc EXCEPT ![p] = "finish_text"]
       ELSE /\ file' = parg[p]
            /\ ppc' = [ppc EXCEPT ![p] = "release"]
    /\ UNCHANGED <<tmp, lock, fdOpen, parg, waited, wrote, seen>>
    /\ UNCHANGED <<store, scoreVars, appVars, loadVars, domVars>>

\* the positions of a save, from the call to the release of the lock
SavingAt ==
    {"acquire", "open_tmp", "write_tmp", "finish_tmp", "replace", "write_text",
     "finish_text", "release", "release_exc"}

\* the process dies during a save; the operating system closes its files and
\* drops the lock it held on the .lock file
Crash(p) ==
    /\ ppc[p] \in SavingAt
    /\ ppc' = [ppc EXCEPT ![p] = "crashed"]
    /\ lock' = IF lock = p THEN 0 ELSE lock
    /\ fdOpen' = fdOpen \ {p}
    /\ UNCHANGED <<file, tmp, parg, waited, wrote, seen>>
    /\ UNCHANGED <<store, scoreVars, appVars, loadVars, domVars>>

---------------------------------------------------------------------------
(* Loaders: load_picks, load_results, load_config on a backing file as found *)

MaxFileRows == 1      \* data rows of a CSV file as found

\* A cell of a CSV file as text: a number, a text that is no number, or nothing
CellTexts == {"0", "1", "x", ""}

\* int(text) where it is defined
IntOf == ("0" :> 0) @@ ("1" :> 1)

\* Backing files: not there; there with zero bytes; a CSV file with the header
\* and its rows; a file that is no JSON; a JSON object
Missing == [state |-> "missing", rows |-> <<>>, obj |-> <<>>]
ZeroBytes == [state |-> "zero_bytes", rows |-> <<>>, obj |-> <<>>]
Csv(rows) == [state |-> "csv", rows |-> rows, obj |-> <<>>]
NotJson == [state |-> "not_json", rows |-> <<>>, obj |-> <<>>]
Json(o) == [state |-> "json", rows |-> <<>>, obj |-> o]

PickIntCols == {"match_id", "home_pred", "away_pred"}
ResultIntCols == {"match_id", "home_goals", "away_goals"}
ConfigKeys == {"points_exact", "points_outcome", "admin_password", "show_local_time"}

\* what a loader gives back: a table, a config, or an exception
NotLoaded == [called |-> FALSE, raised |-> "none", rows |-> <<>>, cfg |-> <<>>]
Returned(rows, c) == [called |-> TRUE, raised |-> "none", rows |-> rows, cfg |-> c]
Raised(e) == [called |-> TRUE, raised |-> e, rows |-> <<>>, cfg |-> <<>>]

\* pd.read_csv(path) and df[col] = df[col].astype(int) for the columns cols,
\* when df is not empty
ReadCsvAsInt(f, cols) ==
    IF f.state = "zero_bytes" THEN Raised("EmptyDataError")
    ELSE IF f.rows = <<>> THEN Returned(<<>>, <<>>)
    ELSE IF \E i \in 1..Len(f.rows), c \in cols : f.rows[i][c] \notin DOMAIN IntOf
         THEN Raised("ValueError")
    ELSE Returned([i \in 1..Len(f.rows) |->
                      [c \in DOMAIN f.rows[i] |->
                          IF c \in cols THEN IntOf[f.rows[i][c]] ELSE f.rows[i][c]]],
                  <<>>)

\* the file after "if not path.exists(): DataFrame(columns=cols).to_csv(path)"
CreatedIfMissing(f) == IF f.state = "missing" THEN Csv(<<>>) ELSE f

\* def load_picks()
load_picks(f) ==
    [file |-> CreatedIfMissing(f), out |-> ReadCsvAsInt(CreatedIfMissing(f), PickIntCols)]

\* def load_results()
load_results(f) ==
    [file |-> CreatedIfMissing(f), out |-> ReadCsvAsInt(CreatedIfMissing(f), ResultIntCols)]

\* a wrong loader, for comparison: the stored object is returned as it is
load_config_as_stored(f) ==
    IF f.state = "missing"
    THEN [file |-> Json(DEFAULT_CONFIG), out |-> Returned(<<>>, DEFAULT_CONFIG)]
    ELSE IF f.state # "json" THEN [file |-> f, out |-> Raised("JSONDecodeError")]
    ELSE [file |-> f, out |-> Returned(<<>>, f.obj)]

\* def load_config()
load_config(f) ==
    IF f.state = "missing"
    THEN [file |-> Json(DEFAULT_CONFIG), out |-> Returned(<<>>, DEFAULT_CONFIG)]
    ELSE IF f.state # "json" THEN [file |-> f, out |-> Raised("JSONDecodeError")]
    ELSE [file |-> f,
          out |-> Returned(<<>>,
                     [k \in (DOMAIN f.obj) \cup ConfigKeys |->
                         IF k \in DOMAIN f.obj THEN f.obj[k] ELSE DEFAULT_CONFIG[k]])]

\* the files the loaders are run on
PickFileRows ==
    [name : {<<"a">>}, match_id : CellTexts, home_pred : CellTexts,
     away_pred : CellTexts, ts_utc : {"0"}]
ResultFileRows ==
    [match_id : CellTexts, home_goals : CellTexts, away_goals : CellTexts]
StoredConfig ==
    [points_exact |-> 7, points_outcome |-> 2, admin_password |-> "s3cret",
     show_local_time |-> FALSE]
ConfigFiles ==
    {Missing, ZeroBytes, NotJson}
      \cup {Json([k \in K |-> StoredConfig[k]]) : K \in SUBSET ConfigKeys}
CsvFiles(Rows) ==
    {Missing, ZeroBytes} \cup {Csv(rows) : rows \in SeqsUpTo(Rows, MaxFileRows)}

LoadInit ==
    /\ ld_kind \in {"picks", "results", "config"}
    /\ ld_in \in CASE ld_kind = "picks" -> CsvFiles(PickFileRows)
                   [] ld_kind = "results" -> CsvFiles(ResultFileRows)
                   [] OTHER -> ConfigFiles
    /\ ld_file = ld_in
    /\ ld_out = NotLoaded

LoadIdle ==
    /\ ld_kind = "picks" /\ ld_in = Missing /\ ld_file = Missing /\ ld_out = NotLoaded

\* one call of the loader of kind on the file as it is
Load(kind) ==
    /\ ld_kind = kind
    /\ ~ld_out.called
    /\ LET r == CASE kind = "picks" -> load_picks(ld_file)
                  [] kind = "results" -> load_results(ld_file)
                  [] OTHER -> load_config(ld_file)
       IN  /\ ld_file' = r.file
           /\ ld_out' = r.out
    /\ UNCHANGED <<ld_kind, ld_in>>
    /\ UNCHANGED <<scoreVars, appVars, storeVars, domVars>>

---------------------------------------------------------------------------
(* The three locked stores side by side: save_picks, save_results and      *)
(* save_config called by several processes                                 *)

PICKS_CSV == "data/picks.csv"
RESULTS_CSV == "data/results.csv"
CONFIG_JSON == "data/config.json"

StorePaths == {PICKS_CSV, RESULTS_CSV, CONFIG_JSON}
\* the stores written by _write_atomic_csv
CsvPaths == {PICKS_CSV, RESULTS_CSV}

\* a file name is a store's path and what is appended to it; the canonical
\* file has nothing appended
Canonical(path) == <<path, "">>

\* a wrong lock file, for comparison: one lock file for the data directory
LockFileOfDataDir(path) == <<"data", ".lock">>

\* FileLock(str(path) + ".lock")
LockFile(path) == <<path, ".lock">>

\* path.with_suffix(path.suffix + ".tmp")
TmpFile(path) == <<path, ".tmp">>

FileNames == {Canonical(path) : path \in StorePaths} \cup {TmpFile(path) : path \in CsvPaths}
LockFiles == {LockFile(path) : path \in StorePaths}

DomInit ==
    /\ files = [f \in FileNames |-> IF f = Canonical(f[1]) THEN HeaderOnly ELSE "missing"]
    /\ locks = [l \in LockFiles |-> 0]
    /\ wpc = [p \in Procs |-> "idle"]
    /\ wpath = [p \in Procs |-> "none"]
    /\ warg = [p \in Procs |-> "none"]
    /\ wwaited = [p \in Procs |-> 0]

DomIdle == DomInit

\* save_picks(df), save_results(df) or save_config(cfg) is called: path is the
\* store's path, t what is to be written
SaveCall(p, path, t) ==
    /\ wpc[p] = "idle"
    /\ wpc' = [wpc EXCEPT ![p] = "acquire"]
    /\ wpath' = [wpath EXCEPT ![p] = path]
    /\ warg' = [warg EXCEPT ![p] = t]
    /\ wwaited' = [wwaited EXCEPT ![p] = 0]
    /\ UNCHANGED <<files, locks>>
    /\ UNCHANGED <<scoreVars, appVars, storeVars, loadVars>>

\* lock.acquire(): the store's lock file is free
LockAcquire(p) ==
    /\ wpc[p] = "acquire"
    /\ locks[LockFile(wpath[p])] = 0
    /\ locks' = [locks EXCEPT ![LockFile(wpath[p])] = p]
    /\ wpc' = [wpc EXCEPT ![p] = "write"]
    /\ wwaited' = [wwaited EXCEPT ![p] = 0]
    /\ UNCHANGED <<files, wpath, warg>>
    /\ UNCHANGED <<scoreVars, appVars, storeVars, loadVars>>

\* lock.acquire(): the store's lock file is held and the timeout has not
\* passed; poll again
LockWait(p) ==
    /\ wpc[p] = "acquire"
    /\ locks[LockFile(wpath[p])] # 0
    /\ wwaited[p] < LOCK_TIMEOUT
    /\ wwaited' = [wwaited EXCEPT ![p] = @ + 1]
    /\ UNCHANGED <<files, locks, wpc, wpath, warg>>
    /\ UNCHANGED <<scoreVars, appVars, storeVars, loadVars>>

\* lock.acquire(): still held after the timeout: Timeout is raised
LockTimesOut(p) ==
    /\ wpc[p] = "acquire"
    /\ locks[LockFile(wpath[p])] # 0
    /\ wwaited[p] = LOCK_TIMEOUT
    /\ wpc' = [wpc EXCEPT ![p] = "timeout_raised"]
    /\ UNCHANGED <<files, locks, wpath, warg, wwaited>>
    /\ UNCHANGED <<scoreVars, appVars, storeVars, loadVars>>

\* _write_atomic_csv(df, path): df.to_csv(tmp), then tmp.replace(path)
WriteAtomicCsv(p) ==
    /\ wpath[p] \in CsvPaths
    /\ wpc[p] \in {"write", "replace"}
    /\ IF wpc[p] = "write"
       THEN /\ files' = [files EXCEPT ![TmpFile(wpath[p])] = warg[p]]
            /\ wpc' = [wpc EXCEPT ![p] = "replace"]
       ELSE /\ files' = [files EXCEPT ![Canonical(wpath[p])] = files[TmpFile(wpath[p])],
                                      ![TmpFile(wpath[p])] = "missing"]
            /\ wpc' = [wpc EXCEPT ![p] = "release"]
    /\ UNCHANGED <<locks, wpath, warg, wwaited>>
    /\ UNCHANGED <<scoreVars, appVars, storeVars, loadVars>>

\* CONFIG_JSON.write_text(json.dumps(cfg, indent=2))
WriteTextConfig(p) ==
    /\ wpath[p] = CONFIG_JSON
    /\ wpc[p] = "write"
    /\ files' = [files EXCEPT ![Canonical(CONFIG_JSON)] = warg[p]]
    /\ wpc' = [wpc EXCEPT ![p] = "release"]
    /\ UNCHANGED <<locks, wpath, warg, wwaited>>
    /\ UNCHANGED <<scoreVars, appVars, storeVars, loadVars>>

\* finally: lock.release()
LockRelease(p) ==
    /\ wpc[p] = "release"
    /\ locks' = [locks EXCEPT ![LockFile(wpath[p])] = IF @ = p THEN 0 ELSE @]
    /\ wpc' = [wpc EXCEPT ![p] = "saved"]
    /\ UNCHANGED <<files, wpath, warg, wwaited>>
    /\ UNCHANGED <<scoreVars, appVars, storeVars, loadVars>>

\* the save has returned or raised; the process is free for its next call
SaveReturn(p) ==
    /\ wpc[p] \in {"saved", "timeout_raised"}
    /\ wpc' = [wpc EXCEPT ![p] = "idle"]
    /\ wpath' = [wpath EXCEPT ![p] = "none"]
    /\ warg' = [warg EXCEPT ![p] = "none"]
    /\ wwaited' = [wwaited EXCEPT ![p] = 0]
    /\ UNCHANGED <<files, locks>>
    /\ UNCHANGED <<scoreVars, appVars, storeVars, loadVars>>

---------------------------------------------------------------------------
(* Specifications                                                          *)

ScoreIdle ==
    /\ sc_picks = <<>> /\ sc_results = <<>> /\ sc_pe = 3 /\ sc_po = 1 /\ sc_out = NotCalled

AppIdle ==
    /\ now = 0 /\ fixturesFile = <<>> /\ picksFile = <<>> /\ resultsFile = <<>>
    /\ cfg = DEFAULT_CONFIG
    /\ pc = [s \in Sessions |-> "idle"]
    /\ snap = [s \in Sessions |-> NoSnap]
    /\ sub = [s \in Sessions |-> NoSub]
    /\ shown = NoShown
    /\ runs = 0

Init == AppInit /\ ScoreIdle /\ StoreIdle /\ LoadIdle /\ DomIdle

\* participants' sessions running concurrently, and the clock
Next ==
    \/ Tick
    \/ \E s \in Sessions : runs < MaxRuns /\ RunStart(s)
    \/ \E s \in Sessions : ViewOnly(s)
    \/ \E s \in Sessions, name \in NameInputs, stage_filter \in {"Todas"} \cup Stages,
          vals \in WidgetVals : SubmitCheck(s, name, stage_filter, vals)
    \/ \E s \in Sessions : SubmitSave(s)

Spec == Init /\ [][Next]_vars

\* one session at a time, with the admin's handlers as well
AdminSession == CHOOSE s \in Sessions : \A t \in Sessions : s <= t

AdminNext ==
    \/ Tick
    \/ runs < MaxAdminRuns /\ RunStart(AdminSession)
    \/ ViewOnly(AdminSession)
    \/ \E name \in NameInputs, stage_filter \in {"Todas"} \cup Stages, vals \in WidgetVals :
          SubmitCheck(AdminSession, name, stage_filter, vals)
    \/ SubmitSave(AdminSession)
    \/ \E pwd \in Passwords, stage_filter \in {"Todas"} \cup Stages, vals \in WidgetVals :
          AdminSaveResults(AdminSession, pwd, stage_filter, vals)
    \/ \E pwd \in Passwords, new_fx \in FixtureTables :
          AdminUpload(AdminSession, pwd, new_fx)
    \/ \E pwd \in Passwords, form \in ConfigForms :
          SaveConfig(AdminSession, pwd, form)

SpecAdmin == Init /\ [][AdminNext]_vars

ScoreSpecInit == ScoreInit /\ AppIdle /\ StoreIdle /\ LoadIdle /\ DomIdle

ScoreNext == ComputeScores

SpecScore == ScoreSpecInit /\ [][ScoreNext]_vars

StoreSpecInit == StoreInit /\ ScoreIdle /\ AppIdle /\ LoadIdle /\ DomIdle

\* savers that may crash, on a store that holds a complete table or record
CrashInit ==
    /\ store \in {"csv", "json"}
    /\ file = HeaderOnly
    /\ tmp = "missing"
    /\ lock = 0
    /\ fdOpen = {}
    /\ ppc = [p \in Procs |-> "idle"]
    /\ parg = [p \in Procs |-> "none"]
    /\ waited = [p \in Procs |-> 0]
    /\ wrote = [p \in Procs |-> FALSE]
    /\ seen = [p \in Procs |-> "none"]

CrashSpecInit == CrashInit /\ ScoreIdle /\ AppIdle /\ LoadIdle /\ DomIdle

CrashNext ==
    \/ \E p \in Procs, t \in SavedTables : SaveStart(p, t)
    \/ \E p \in Procs : Acquire(p)
    \/ \E p \in Procs : Wait(p)
    \/ \E p \in Procs : LockTimeout(p)
    \/ \E p \in Procs : store = "csv" /\ OpenTmp(p)
    \/ \E p \in Procs : WriteTmp(p)
    \/ \E p \in Procs : Replace(p)
    \/ \E p \in Procs : store = "json" /\ WriteTextOpen(p)
    \/ \E p \in Procs : WriteText(p)
    \/ \E p \in Procs : Release(p)
    \/ \E p \in Procs : Return(p)
    \/ \E p \in Procs : Crash(p)

SpecCrash == CrashSpecInit /\ [][CrashNext]_vars

StoreNext ==
    \/ \E p \in Procs, t \in SavedTables : SaveStart(p, t)
    \/ \E p \in Procs : Acquire(p)
    \/ \E p \in Procs : Wait(p)
    \/ \E p \in Procs : LockTimeout(p)
    \/ \E p \in Procs : OpenTmp(p)
    \/ \E p \in Procs : WriteTmp(p)
    \/ \E p \in Procs : Replace(p)
    \/ \E p \in Procs : Release(p)
    \/ \E p \in Procs : LoadStart(p)
    \/ \E p \in Procs : CreateOpen(p)
    \/ \E p \in Procs : CreateWrite(p)
    \/ \E p \in Procs : ReadCsv(p)
    \/ \E p \in Procs : Return(p)

SpecStore == StoreSpecInit /\ [][StoreNext]_vars

\* a step of process p inside save_picks, save_results or save_config
SaveStep(p) ==
    \/ Acquire(p)
    \/ Wait(p)
    \/ LockTimeout(p)
    \/ store = "csv" /\ OpenTmp(p)
    \/ WriteTmp(p)
    \/ Replace(p)
    \/ store = "json" /\ WriteTextOpen(p)
    \/ WriteText(p)
    \/ WriteFails(p)
    \/ Release(p)

\* savers alone, whose writes may raise
SaveNext ==
    \/ \E p \in Procs, t \in SavedTables : SaveStart(p, t)
    \/ \E p \in Procs : Acquire(p)
    \/ \E p \in Procs : Wait(p)
    \/ \E p \in Procs : LockTimeout(p)
    \/ \E p \in Procs : store = "csv" /\ OpenTmp(p)
    \/ \E p \in Procs : WriteTmp(p)
    \/ \E p \in Procs : Replace(p)
    \/ \E p \in Procs : store = "json" /\ WriteTextOpen(p)
    \/ \E p \in Procs : WriteText(p)
    \/ \E p \in Procs : WriteFails(p)
    \/ \E p \in Procs : Release(p)
    \/ \E p \in Procs : Return(p)

\* every process that is inside a save goes on running: its thread is
\* scheduled again, and acquire polls the lock until its timeout
SpecSave ==
    /\ CrashSpecInit
    /\ [][SaveNext]_vars
    /\ \A p \in Procs : WF_vars(SaveStep(p))

\* several processes saving to the three stores
DomSpecInit == DomInit /\ ScoreIdle /\ AppIdle /\ StoreIdle /\ LoadIdle

\* what a save writes has no part in the locking: one table is enough
DomTables == {"T1"}

DomNext ==
    \/ \E p \in Procs, path \in StorePaths, t \in DomTables : SaveCall(p, path, t)
    \/ \E p \in Procs : LockAcquire(p)
    \/ \E p \in Procs : LockWait(p)
    \/ \E p \in Procs : LockTimesOut(p)
    \/ \E p \in Procs : WriteAtomicCsv(p)
    \/ \E p \in Procs : WriteTextConfig(p)
    \/ \E p \in Procs : LockRelease(p)
    \/ \E p \in Procs : SaveReturn(p)

SpecDomains == DomSpecInit /\ [][DomNext]_vars

\* the admin's session alone, and the clock: uploads of fixture files as typed
\* by hand, and saves of results
MaxResultRuns == 3

ResultsNext ==
    \/ Tick
    \/ runs < MaxResultRuns /\ RunStart(AdminSession)
    \/ \E stage_filter \in {"Todas"} \cup Stages : RenderFails(AdminSession, stage_filter)
    \/ ViewOnly(AdminSession)
    \/ \E pwd \in Passwords, raw \in RawUploads :
          AdminUpload(AdminSession, pwd, CoerceMatchIds(raw))
    \/ \E pwd \in Passwords, stage_filter \in {"Todas"} \cup Stages, vals \in WidgetVals :
          AdminSaveResults(AdminSession, pwd, stage_filter, vals)

SpecResults == Init /\ [][ResultsNext]_vars

LoadSpecInit == LoadInit /\ ScoreIdle /\ AppIdle /\ StoreIdle /\ DomIdle

LoadNext ==
    \/ Load("picks")
    \/ Load("results")
    \/ Load("config")

SpecLoad == LoadSpecInit /\ [][LoadNext]_vars

---------------------------------------------------------------------------
(* Properties of compute_scores (under SpecScore)                          *)

\* the pairs (pick row, result row) of the arguments with equal match_id
JoinedPairs ==
    {<<i, j>> \in (1..Len(sc_picks)) \X (1..Len(sc_results)) :
        sc_picks[i].match_id = sc_results[j].match_id}

\* the detail rows that come from pick i and result j
DetailRowsOf(i, j) ==
    {k \in 1..Len(sc_out.detail) :
        /\ sc_out.detail[k].name = sc_picks[i].name
        /\ sc_out.detail[k].match_id = sc_picks[i].match_id
        /\ sc_out.detail[k].home_pred = sc_picks[i].home_pred
        /\ sc_out.detail[k].away_pred = sc_picks[i].away_pred
        /\ sc_out.detail[k].home_goals = sc_results[j].home_goals
        /\ sc_out.detail[k].away_goals = sc_results[j].away_goals}

IsExact(i, j) ==
    /\ sc_picks[i].home_pred = sc_results[j].home_goals
    /\ sc_picks[i].away_pred = sc_results[j].away_goals

\* home win, away win or draw on both sides, by strict comparison of the goals
SameThreeWay(i, j) ==
    \/ sc_picks[i].home_pred > sc_picks[i].away_pred
         /\ sc_results[j].home_goals > sc_results[j].away_goals
    \/ sc_picks[i].home_pred < sc_picks[i].away_pred
         /\ sc_results[j].home_goals < sc_results[j].away_goals
    \/ sc_picks[i].home_pred = sc_picks[i].away_pred
         /\ sc_results[j].home_goals = sc_results[j].away_goals

\* C5: every joined row whose predicted home and away goals both equal the
\* actual ones has points = points_exact, whatever points_outcome is (so never
\* points_exact + points_outcome).
C5_ExactRowEarnsPointsExact ==
    sc_out.called =>
        \A pr \in JoinedPairs :
            IsExact(pr[1], pr[2]) =>
                /\ DetailRowsOf(pr[1], pr[2]) # {}
                /\ \A k \in DetailRowsOf(pr[1], pr[2]) : sc_out.detail[k].points = sc_pe

\* an exact row was scored while points_outcome was larger than points_exact
C5_Witness ==
    /\ sc_out.called
    /\ sc_po > sc_pe
    /\ \E pr \in JoinedPairs : IsExact(pr[1], pr[2]) /\ DetailRowsOf(pr[1], pr[2]) # {}

\* C6: every joined row that is not an exact match has points = points_outcome
\* when predicted and actual score have the same three-way outcome, and 0 when
\* the outcomes differ.
C6_OutcomeRowEarnsPointsOutcomeElseZero ==
    sc_out.called =>
        \A pr \in JoinedPairs :
            ~IsExact(pr[1], pr[2]) =>
                /\ DetailRowsOf(pr[1], pr[2]) # {}
                /\ \A k \in DetailRowsOf(pr[1], pr[2]) :
                      sc_out.detail[k].points =
                          IF SameThreeWay(pr[1], pr[2]) THEN sc_po ELSE 0

\* one call scored a same-outcome row that is not exact and a row of another outcome
C6_Witness ==
    /\ sc_out.called
    /\ \E pr \in JoinedPairs :
          ~IsExact(pr[1], pr[2]) /\ SameThreeWay(pr[1], pr[2])
          /\ \E k \in DetailRowsOf(pr[1], pr[2]) : sc_out.detail[k].points = sc_po
    /\ \E pr \in JoinedPairs :
          ~SameThreeWay(pr[1], pr[2])
          /\ \E k \in DetailRowsOf(pr[1], pr[2]) : sc_out.detail[k].points = 0

\* the sum of the points of the detail rows of name n
DetailTotal(n) ==
    LET T[k \in 0..Len(sc_out.detail)] ==
            IF k = 0 THEN 0
            ELSE T[k - 1] + (IF sc_out.detail[k].name = n THEN sc_out.detail[k].points ELSE 0)
    IN  T[Len(sc_out.detail)]

C23_RankingAccountsForDetail ==
    sc_out.called =>
        LET rk == sc_out.ranking
            dt == sc_out.detail
        IN  /\ SumSeq([i \in 1..Len(rk) |-> rk[i].points])
                 = SumSeq([k \in 1..Len(dt) |-> dt[k].points])
            /\ Len(dt) = Cardinality(JoinedPairs)
            /\ \A pr \in JoinedPairs : DetailRowsOf(pr[1], pr[2]) # {}
            /\ \A k \in 1..Len(dt) : \E i \in 1..Len(rk) : rk[i].name = dt[k].name
            /\ \A k, m \in 1..Len(dt) :
                  dt[k].name # dt[m].name =>
                      \E i, j \in 1..Len(rk) :
                          i # j /\ rk[i].name = dt[k].name /\ rk[j].name = dt[m].name

---------------------------------------------------------------------------
(* Properties of the stored tables' files (under SpecStore)                *)

\* C4: every load reads a file whose content is the complete table written by
\* one finished save or the complete initial empty table; no load observes a
\* file that is empty, written in part or interleaved.
C4_LoadsSeeCompleteTables ==
    \A p \in Procs :
        ppc[p] \in {"loaded", "load_raised"} => seen[p] \in CompleteContents

\* the positions at which a process has the canonical or the temporary file
\* open for writing, or is about to rename over the canonical file
WritingAt == {"write_tmp", "finish_tmp", "replace", "create_write"}

\* C17: a process writes the store's canonical or temporary file only while
\* it holds the store's lock, so no two processes are writing at once.
C17_WritersHoldTheLock ==
    /\ \A p \in Procs : ppc[p] \in WritingAt => lock = p
    /\ \A p, q \in Procs : (ppc[p] \in WritingAt /\ ppc[q] \in WritingAt) => p = q

\* a step of process p
StepOf(p) ==
    \/ ppc'[p] # ppc[p]
    \/ waited'[p] # waited[p]

\* C9: a save whose wait for the lock has lasted the whole timeout while
\* another writer holds the lock ends by raising Timeout to its caller; the
\* save has written nothing to the temporary or the canonical file, no step of
\* it changes either file, and once raised it is not tried again: the call only
\* returns.
C9_LockTimeoutRaisesAndWritesNothing ==
    [][\A p \in Procs :
          /\ (ppc[p] = "acquire" /\ StepOf(p)) => (file' = file /\ tmp' = tmp)
          /\ (ppc[p] = "acquire" /\ lock # 0 /\ waited[p] = LOCK_TIMEOUT /\ StepOf(p)) =>
                /\ ppc'[p] = "timeout_raised"
                /\ lock' = lock
                /\ ~wrote'[p]
          /\ (ppc'[p] = "timeout_raised" /\ ppc[p] # "timeout_raised") =>
                /\ ppc[p] = "acquire" /\ waited[p] = LOCK_TIMEOUT
                /\ lock \notin {0, p}
          /\ (ppc[p] = "timeout_raised" /\ StepOf(p)) =>
                /\ ppc'[p] = "idle"
                /\ ~wrote[p]
                /\ file' = file /\ tmp' = tmp /\ lock' = lock
      ]_vars

\* a save has raised Timeout while the other process, holding the lock, has
\* its table in the temporary file
C9_Witness ==
    \E p \in Procs :
        /\ ppc[p] = "timeout_raised"
        /\ ~wrote[p]
        /\ waited[p] = LOCK_TIMEOUT
        /\ lock \in Procs \ {p}
        /\ tmp \in SavedTables

---------------------------------------------------------------------------
(* Properties of the lock (under SpecSave)                                 *)

\* the positions of a save between taking the lock and releasing it
HoldingAt == SavingAt \ {"acquire"}

\* the positions at which a save has ended
EndedAt == {"saved", "timeout_raised", "write_raised"}

\* C21: the lock is held only by a process between its acquire and its
\* release, so it is free whenever no save is in progress and after every save
\* that has ended, with the table written or with an error; and every save
\* that has started ends: it has written its table, or its write has raised,
\* or it has raised Timeout.
C21_LockReleasedAndSavesEnd ==
    /\ [](/\ \A p \in Procs : lock = p => ppc[p] \in HoldingAt
          /\ \A p \in Procs : ppc[p] \in HoldingAt => lock = p
          /\ (\A p \in Procs : ppc[p] \notin SavingAt) => lock = 0
          /\ \A p \in Procs : ppc[p] = "release" => file = parg[p])
    /\ \A p \in Procs : (ppc[p] = "acquire") ~> (ppc[p] \in EndedAt)

\* a save whose write raised has ended and the lock is free again, while the
\* other process's save has raised Timeout
C21_Witness ==
    \E p \in Procs :
        /\ ppc[p] = "write_raised"
        /\ lock = 0
        /\ \E q \in Procs \ {p} : ppc[q] = "timeout_raised"

---------------------------------------------------------------------------
(* Properties of the three stores side by side (under SpecDomains)         *)

\* the positions of a save between taking its store's lock and releasing it
InsideAt == {"write", "replace", "release"}

\* process p waits once more for its lock, or gives up with Timeout
WaitsOrTimesOut(p) ==
    /\ wpc[p] = "acquire"
    /\ wwaited'[p] > wwaited[p] \/ wpc'[p] = "timeout_raised"

\* process p takes a step of its save
SaveStepOf(p) ==
    /\ wpc[p] # "idle"
    /\ wpc'[p] # wpc[p] \/ wwaited'[p] # wwaited[p]

\* C22: a save waits for its lock, or raises Timeout, only while another
\* process is inside a save of the same store; and a step of a save changes
\* no file and no lock of another store.
C22_StoresAreIndependentLockDomains ==
    [][\A p \in Procs :
          /\ WaitsOrTimesOut(p) =>
                \E q \in Procs \ {p} : wpc[q] \in InsideAt /\ wpath[q] = wpath[p]
          /\ SaveStepOf(p) =>
                /\ \A f \in FileNames : f[1] # wpath[p] => files'[f] = files[f]
                /\ \A path \in StorePaths \ {wpath[p]} :
                      locks'[LockFile(path)] = locks[LockFile(path)]
      ]_vars

\* two processes are inside saves of two different stores at once, each
\* holding its own store's lock, and one of them has written
C22_Witness ==
    \E p, q \in Procs :
        /\ wpc[p] \in InsideAt /\ wpc[q] \in InsideAt
        /\ wpath[p] # wpath[q]
        /\ locks[LockFile(wpath[p])] = p /\ locks[LockFile(wpath[q])] = q
        /\ wpc[p] = "release" /\ files[Canonical(wpath[p])] = warg[p]

---------------------------------------------------------------------------
(* Properties of the sessions (under Spec and SpecAdmin)                   *)

\* participant identity: the trimmed name, compared without regard to case
Identity(name) == Lower(Strip(name))

\* C1: the stored picks table holds at most one row per (participant identity,
\* match_id), the identity being the trimmed name compared case-insensitively.
C1_OneRowPerIdentityAndMatch ==
    \A i, j \in 1..Len(picksFile) :
        (/\ Identity(picksFile[i].name) = Identity(picksFile[j].name)
         /\ picksFile[i].match_id = picksFile[j].match_id) => i = j

\* the kickoff instant of match m, as the stored fixtures give it, has passed
KickoffPassed(m) ==
    \E i \in 1..Len(fixturesFile) :
        fixturesFile[i].match_id = m /\ is_locked(fixturesFile[i].kickoff_utc)

\* the rows of table t for match m, in order
RowsFor(t, m) ==
    LET of_m(r) == r.match_id = m
    IN  SelectSeq(t, of_m)

\* C2: once the kickoff instant of match m has passed, no step adds, modifies
\* or removes a row for m in the stored picks table.
C2_RowsFrozenAfterKickoff ==
    [][\A m \in MatchIds :
          KickoffPassed(m) => RowsFor(picksFile', m) = RowsFor(picksFile, m)]_vars

\* C3: the save of a submission by participant P for the matches S leaves a
\* picks table in which P has exactly one row, with the submitted goals, for
\* every match of S, and in which every other row is as it was in the stored
\* table: none added, none removed, none changed.
C3_SubmissionChangesOnlyOwnOpenRows ==
    [][\A s \in Sessions :
          (pc[s] = "checked" /\ pc'[s] = "idle") =>
              LET P == Identity(sub[s].name)
                  new_rows == sub[s].new_rows
                  S == {new_rows[i].match_id : i \in 1..Len(new_rows)}
                  own(r) == Identity(r.name) = P /\ r.match_id \in S
                  other(r) == ~own(r)
              IN  /\ \A i \in 1..Len(new_rows) :
                        LET mine(r) == Identity(r.name) = P
                                         /\ r.match_id = new_rows[i].match_id
                            rows == SelectSeq(picksFile', mine)
                        IN  /\ Len(rows) = 1
                            /\ rows[1].home_pred = new_rows[i].home_pred
                            /\ rows[1].away_pred = new_rows[i].away_pred
                  /\ SelectSeq(picksFile', other) = SelectSeq(picksFile, other)
      ]_vars

\* the match ids of a fixtures table
FixtureIds(fx) == {fx[i].match_id : i \in 1..Len(fx)}

\* C8: whatever the ranking tab shows comes from matches of the current
\* fixture set: every detail row is of such a match, and every name ranked has
\* a detail row behind it.
C8_ShownOnlyFromCurrentFixtures ==
    /\ \A k \in 1..Len(shown.detail) :
          shown.detail[k].match_id \in FixtureIds(fixturesFile)
    /\ \A i \in 1..Len(shown.ranking) :
          \E k \in 1..Len(shown.detail) : shown.detail[k].name = shown.ranking[i].name

\* C10: a submission with an empty or whitespace-only name, or made with no
\* fixtures loaded, never gets as far as the save; its run ends with the
\* validation message on the page and the stored picks table unchanged.
C10_InvalidSubmissionReportedNotWritten ==
    [][\A s \in Sessions :
          /\ pc'[s] = "checked" =>
                (Strip(sub'[s].name) # <<>> /\ snap'[s].fixtures # <<>>)
          /\ (/\ pc[s] \in {"loaded", "checked"} /\ pc'[s] = "idle"
              /\ shown'.button = "submit"
              /\ (Strip(shown'.name) = <<>> \/ snap[s].fixtures = <<>>)) =>
                /\ picksFile' = picksFile
                /\ shown'.msg = IF Strip(shown'.name) = <<>>
                                THEN "error: Ingresa tu nombre."
                                ELSE "warning: No hay fixtures cargados."
      ]_vars

\* a whitespace-only name was submitted, with fixtures loaded and picks stored
C10_Witness ==
    /\ shown.button = "submit"
    /\ shown.name = <<" ">>
    /\ shown.msg = "error: Ingresa tu nombre."
    /\ fixturesFile # <<>>
    /\ picksFile # <<>>

---------------------------------------------------------------------------
(* Properties of the loaders (under SpecLoad)                              *)

\* C11: a load of picks, results or config never ends in an error, whatever
\* the existing backing file holds; it returns a table or a record.
C11_LoadNeverRaises ==
    ld_out.called => ld_out.raised = "none"

\* C13: every config returned by load_config has the four keys; a key of the
\* stored record keeps its stored value and a key missing from it has the
\* default; with no config file the defaults are returned and the file is
\* created holding them.
C13_LoadConfigBackfillsDefaults ==
    (ld_kind = "config" /\ ld_out.called) =>
        /\ ld_in.state \in {"missing", "json"} => ld_out.raised = "none"
        /\ ld_out.raised = "none" =>
              /\ ConfigKeys \subseteq DOMAIN ld_out.cfg
              /\ ld_in.state = "json" =>
                    /\ \A k \in ConfigKeys :
                          ld_out.cfg[k] = IF k \in DOMAIN ld_in.obj THEN ld_in.obj[k]
                                          ELSE DEFAULT_CONFIG[k]
                    /\ ld_file = ld_in
              /\ ld_in.state = "missing" =>
                    /\ ld_out.cfg = DEFAULT_CONFIG
                    /\ ld_file = Json(DEFAULT_CONFIG)

\* load_config has returned from a stored record with one of the four keys
C13_Witness ==
    /\ ld_kind = "config"
    /\ ld_out.called /\ ld_out.raised = "none"
    /\ ld_in.state = "json"
    /\ DOMAIN ld_in.obj = {"points_outcome"}
    /\ ld_out.cfg.points_outcome = 2
    /\ ld_out.cfg.points_exact = 3

---------------------------------------------------------------------------
(* Properties of the time gate (under SpecResults)                         *)

\* kickoff texts: empty, blank, pandas' missing value, a placeholder, a date
\* with no time, and three in the format "%Y-%m-%d %H:%M"
UnparsableTexts == {"", " ", "nan", "TBD", "2025-09-16"}
KickoffTexts == UnparsableTexts \cup DOMAIN KickoffInstant

\* C12: is_locked(text) is true exactly when text parses as an instant and
\* the clock is at or after it; for empty, placeholder or unparsable text it
\* is false at every time; and as the clock advances a locked match never
\* becomes open again. (Stated on every step, for the state before and the
\* state after it.)
C12_LockedIffKickoffReached ==
    [][LET Gate == \A text \in KickoffTexts :
                      /\ is_locked(text) <=>
                            (/\ parse_to_aware_utc(text).ok
                             /\ now >= parse_to_aware_utc(text).t)
                      /\ text \in UnparsableTexts => ~is_locked(text)
                      /\ text \in DOMAIN KickoffInstant =>
                            (is_locked(text) <=> now >= KickoffInstant[text])
       IN  /\ Gate
           /\ Gate'
           /\ \A text \in KickoffTexts : is_locked(text) => (is_locked(text))'
      ]_vars

\* the clock has reached a kickoff instant: that match is locked, an earlier
\* one is still locked, a later one and one with no kickoff time are open
C12_Witness ==
    /\ now = 1
    /\ is_locked("2025-09-16 19:00")
    /\ is_locked("2025-09-15 19:00")
    /\ ~is_locked("2025-09-17 19:00")
    /\ ~is_locked("TBD")
    /\ \E i \in 1..Len(fixturesFile) : is_locked(fixturesFile[i].kickoff_utc)

---------------------------------------------------------------------------
(* Properties of the admin's handlers (under SpecAdmin)                    *)

\* the match ids of a results table
ResultIds(t) == {t[i].match_id : i \in 1..Len(t)}

\* C14: a save of official results for the matches shown under the stage
\* filter (the matches of the rows submitted) leaves every result recorded
\* before for a match outside them in the stored results table, unchanged.
C14_ResultsOutsideFilterKept ==
    [][(shown'.button = "save_results" /\ resultsFile' # resultsFile) =>
          \A i \in 1..Len(resultsFile) :
              resultsFile[i].match_id \notin ResultIds(resultsFile') =>
                  \E j \in 1..Len(resultsFile') : resultsFile'[j] = resultsFile[i]
      ]_vars

\* C15: no step writes the fixtures table, the results table or the config
\* record unless the password typed by the session equals the admin secret
\* expected at that time.
C15_WritesOnlyBehindPassword ==
    [][(fixturesFile' # fixturesFile \/ resultsFile' # resultsFile \/ cfg' # cfg) =>
          shown'.pwd = cfg.admin_password]_vars

\* C18: every stored config has points_outcome <= points_exact, so that an
\* exact prediction never earns fewer points than an outcome-only one.
C18_StoredOutcomePointsAtMostExact ==
    cfg.points_outcome <= cfg.points_exact

---------------------------------------------------------------------------
(* Properties of concurrent sessions (under Spec)                          *)

\* C16: the save of a submission never discards a row another participant has
\* stored: every row of the stored picks table under another identity is
\* still in the table after the save.
C16_SaveKeepsOthersRows ==
    [][\A s \in Sessions :
          (pc[s] = "checked" /\ pc'[s] = "idle") =>
              \A i \in 1..Len(picksFile) :
                  Identity(picksFile[i].name) # Identity(sub[s].name) =>
                      \E j \in 1..Len(picksFile') : picksFile'[j] = picksFile[i]
      ]_vars

---------------------------------------------------------------------------
(* Properties of the results table (under SpecResults)                     *)

\* C19: whatever fixture files are uploaded, with repeated match_ids or with
\* malformed ones coerced to 0, the stored results table holds at most one row
\* per match_id.
C19_OneResultPerMatch ==
    \A i, j \in 1..Len(resultsFile) :
        resultsFile[i].match_id = resultsFile[j].match_id => i = j

\* results were saved while the fixtures hold two matches under match_id 0,
\* both coerced from text that is no number
C19_Witness ==
    /\ shown.button = "save_results"
    /\ shown.msg = "success: Resultados guardados."
    /\ resultsFile # <<>>
    /\ Len(fixturesFile) = 2
    /\ \A i \in 1..Len(fixturesFile) : fixturesFile[i].match_id = 0

---------------------------------------------------------------------------
(* Properties of savers that crash (under SpecCrash)                       *)

\* C20: whenever no process is in the middle of writing it, the canonical
\* file holds a complete content, the one from before a save or the new one,
\* also after a writer has crashed at any step of its save; and a crashed
\* writer does not keep the lock.
C20_CanonicalCompleteAfterCrash ==
    /\ (\A p \in Procs : ppc[p] \notin {"write_text", "finish_text"}) =>
          file \in CompleteContents
    /\ \A p \in Procs : ppc[p] = "crashed" => lock # p

\* the part of C20 that is about picks.csv and results.csv
CsvCrashSafe == store = "csv" => C20_CanonicalCompleteAfterCrash

=============================================================================
